---- MODULE Spec2Model ----
(***************************************************************************)
(* Model of the Neo4j/PyQt graph client: the graph store adapter           *)
(* (Neo4jClient), the view builder (_apply_graph_to_view) and the          *)
(* interaction controller (MainWindow, Worker, Bridge).                    *)
(*                                                                         *)
(* Strings.  Property keys and values are TLA+ strings.  The source uses   *)
(* two Cyrillic literals that the TLA+ lexer does not accept; they are     *)
(* transliterated: the property key of the type tag is written "tip" and   *)
(* the "all" entry of the filter selector is written "Vse".  Labels and    *)
(* relationship types are sequences of one-character strings, because the  *)
(* adapter filters them character by character.                            *)
(*                                                                         *)
(* Store.  dbNodes and dbRels are the database.  Nothing in the program    *)
(* deletes an entity, so the internal handle of the i-th created entity    *)
(* is i-1.  Cypher "SET x += $props" is modelled by Merge.                 *)
(***************************************************************************)
EXTENDS Integers, Sequences, FiniteSets, Bags, TLC

VARIABLES
    dbNodes,       \* store: sequence of [id, labels, props], in creation order
    dbRels,        \* store: sequence of [id, start, end, type, props]
    last,          \* the most recent adapter call made directly: op, arguments, return value;
                   \* in SpecSession also how far it has got: pc, sessions opened and closed, queries
    prevRead,      \* return value of the call before `last` when that call was get_graph, else NoRead
    tasks,         \* MainWindow.pool: the bag of submitted Workers whose signal is not yet handled
    filter_items,  \* MainWindow.filter_box: its entries
    filter_index,  \* MainWindow.filter_box: position of the current entry (0: none)
    view,          \* MainWindow.view: the graph document on display
    boxes,         \* the open QMessageBox.critical boxes, innermost last: the task each names
    ui_calls,      \* the store operations that the UI thread has executed itself
    exported,      \* the document at the path chosen in _export_graph, NoFile before any export
    client         \* MainWindow.client: the number of the Neo4jClient in use; those before it are closed

dbVars == <<dbNodes, dbRels>>
apiVars == <<last, prevRead>>
uiVars == <<tasks, filter_items, filter_index, view, boxes, ui_calls, exported, client>>
vars == <<dbNodes, dbRels, last, prevRead, tasks, filter_items, filter_index, view, boxes,
          ui_calls, exported, client>>

-----------------------------------------------------------------------------
(* Bounds *)

MaxNodes == 2
MaxRels == 1
MaxTasks == 3
MaxErrors == 1

-----------------------------------------------------------------------------
(* Strings *)

TypeKey == "tip"
ALL == "Vse"

\* str(int) for the internal handles that occur
StrTab == <<"0", "1", "2", "3", "4", "5", "6", "7">>
Str(n) == StrTab[n + 1]

\* str(uuid.uuid4()): a value no earlier call produced.  Entities are never
\* deleted, so the handle the new entity gets indexes a fresh value.
NodeUuidTab == <<"n0", "n1", "n2", "n3", "n4", "n5", "n6", "n7">>
RelUuidTab == <<"r0", "r1", "r2", "r3", "r4", "r5", "r6", "r7">>
uuid4_node(h) == NodeUuidTab[h + 1]
uuid4_rel(h) == RelUuidTab[h + 1]

\* ch.isalnum() or ch == "_"
AlnumChars ==
    {"A", "C", "D", "E", "F", "I", "K", "L", "N", "O", "P", "R", "S", "T", "W",
     "a", "d", "e", "m", "n", "o", "p", "r", "s", "y", "1"}
IsSafeChar(ch) == ch \in AlnumChars \/ ch = "_"

RECURSIVE FilterSafe(_)
FilterSafe(s) ==
    IF s = <<>> THEN <<>>
    ELSE IF IsSafeChar(Head(s)) THEN <<Head(s)>> \o FilterSafe(Tail(s))
    ELSE FilterSafe(Tail(s))

DefaultLabel == <<"N", "o", "d", "e">>
DefaultType == <<"R", "E", "L">>

\* variant: "".join(ch for ch in (s or default) if ch.isalnum() or ch == "_")
Sanitize_NoFallback(s, default) == FilterSafe(IF s = <<>> THEN default ELSE s)

\* "".join(ch for ch in (s or default) if ch.isalnum() or ch == "_") or default
Sanitize(s, default) ==
    LET src == IF s = <<>> THEN default ELSE s
        out == FilterSafe(src)
    IN IF out = <<>> THEN default ELSE out

-----------------------------------------------------------------------------
(* Property maps *)

NoProps == [k \in {} |-> ""]

\* dict(old); old.update(new)  and  Cypher  SET x += $new
Merge(old, new) ==
    [k \in (DOMAIN old) \cup (DOMAIN new) |-> IF k \in DOMAIN new THEN new[k] ELSE old[k]]

\* bool(props.get(k))
Truthy(props, k) == k \in DOMAIN props /\ props[k] # ""

\* variant: props.get("uuid", str(x.id)), which keeps an empty uuid
EntityId_GetDefault(props, handle) == IF "uuid" \in DOMAIN props THEN props["uuid"] ELSE Str(handle)

\* props.get("uuid") or str(x.id)
EntityId(props, handle) == IF Truthy(props, "uuid") THEN props["uuid"] ELSE Str(handle)

-----------------------------------------------------------------------------
(* Neo4jClient.get_graph: two queries *)

NodeLabel(n) ==
    IF n.labels # <<>> THEN n.labels[1]
    ELSE IF Truthy(n.props, "label") THEN n.props["label"]
    ELSE EntityId(n.props, n.id)

\* MATCH (n) RETURN n
QueryNodes(ns) ==
    [i \in 1..Len(ns) |->
        [id |-> EntityId(ns[i].props, ns[i].id),
         label |-> NodeLabel(ns[i]),
         properties |-> ns[i].props]]

\* variant: the endpoints are named by their handles
QueryRels_HandleEnds(ns, rs) ==
    [i \in 1..Len(rs) |->
        LET r == rs[i]
        IN [id |-> EntityId(r.props, r.id),
            from |-> Str(ns[r.start + 1].id),
            to |-> Str(ns[r.end + 1].id),
            type |-> r.type,
            properties |-> r.props,
            direction |-> "->"]]

\* MATCH (a)-[r]->(b) RETURN r, a, b
QueryRels(ns, rs) ==
    [i \in 1..Len(rs) |->
        LET r == rs[i]
            a == ns[r.start + 1]
            b == ns[r.end + 1]
        IN [id |-> EntityId(r.props, r.id),
            from |-> EntityId(a.props, a.id),
            to |-> EntityId(b.props, b.id),
            type |-> r.type,
            properties |-> r.props,
            direction |-> "->"]]

get_graph(ns, rs) == [nodes |-> QueryNodes(ns), rels |-> QueryRels(ns, rs)]

-----------------------------------------------------------------------------
(* Neo4jClient write operations *)

\* MATCH (x {uuid:$u})  /  WHERE x.uuid = $u
HasUuid(props, u) == "uuid" \in DOMAIN props /\ props["uuid"] = u

\* variant: props = {}; props["uuid"] = new_uuid, which drops the caller's map
WithUuid_Dropping(properties, new_uuid) == "uuid" :> new_uuid

\* props = dict(properties or {}); props["uuid"] = new_uuid
WithUuid(properties, new_uuid) == Merge(properties, "uuid" :> new_uuid)

\* variant: props = properties; props["uuid"] = new_uuid, which writes into the caller's dict
CallerMap_Aliased(properties, new_uuid) == Merge(properties, "uuid" :> new_uuid)

\* the caller's dict after the call: props is a copy, dict(properties or {}),
\* so the assignment props["uuid"] = new_uuid does not reach it
CallerMap(properties, new_uuid) == properties

\* the node that CREATE (n:safe_label) SET n += $props makes
CreatedNode(ns, label, properties) ==
    LET node_uuid == uuid4_node(Len(ns))
        props == WithUuid(properties, node_uuid)
        safe_label == Sanitize(label, DefaultLabel)
    IN [id |-> Len(ns), labels |-> <<safe_label>>, props |-> props]

add_node(ns, label, properties) == Append(ns, CreatedNode(ns, label, properties))

\* if direction == "<-": from_uuid, to_uuid = to_uuid, from_uuid
Endpoints(from_uuid, to_uuid, direction) ==
    IF direction = "<-" THEN <<to_uuid, from_uuid>> ELSE <<from_uuid, to_uuid>>

\* indices of the nodes matched by (x {uuid:$u}), in store order
RECURSIVE MatchIdx(_, _, _)
MatchIdx(ns, u, i) ==
    IF i > Len(ns) THEN <<>>
    ELSE IF HasUuid(ns[i].props, u) THEN <<i>> \o MatchIdx(ns, u, i + 1)
    ELSE MatchIdx(ns, u, i + 1)

\* the relationships that MATCH (a {uuid:$from_uuid}), (b {uuid:$to_uuid})
\* CREATE (a)-[r:safe_type]->(b) SET r += $props makes: one per matched pair
CreatedRels(ns, rs, from_uuid, to_uuid, r_type, direction, properties) ==
    LET rel_uuid == uuid4_rel(Len(rs))
        props == WithUuid(properties, rel_uuid)
        safe_type == Sanitize(r_type, DefaultType)
        ep == Endpoints(from_uuid, to_uuid, direction)
        as == MatchIdx(ns, ep[1], 1)
        bs == MatchIdx(ns, ep[2], 1)
    IN [k \in 1..(Len(as) * Len(bs)) |->
          [id |-> Len(rs) + k - 1,
           start |-> ns[as[((k - 1) \div Len(bs)) + 1]].id,
           end |-> ns[bs[((k - 1) % Len(bs)) + 1]].id,
           type |-> safe_type,
           props |-> props]]

add_relationship(ns, rs, from_uuid, to_uuid, r_type, direction, properties) ==
    rs \o CreatedRels(ns, rs, from_uuid, to_uuid, r_type, direction, properties)

\* variant: MERGE (n {uuid:$nid}) SET n += $props, which creates the node it does not find
update_node_properties_Upserting(ns, node_uuid, properties) ==
    IF \E i \in 1..Len(ns) : HasUuid(ns[i].props, node_uuid)
    THEN [i \in 1..Len(ns) |->
            IF HasUuid(ns[i].props, node_uuid)
            THEN [ns[i] EXCEPT !.props = Merge(@, properties)]
            ELSE ns[i]]
    ELSE Append(ns, [id |-> Len(ns), labels |-> <<>>,
                     props |-> Merge("uuid" :> node_uuid, properties)])

\* variant: SET n = $props, which replaces the property map
update_node_properties_Replacing(ns, node_uuid, properties) ==
    [i \in 1..Len(ns) |->
        IF HasUuid(ns[i].props, node_uuid)
        THEN [ns[i] EXCEPT !.props = properties]
        ELSE ns[i]]

\* MATCH (n) WHERE n.uuid=$nid SET n += $props
update_node_properties(ns, node_uuid, properties) ==
    [i \in 1..Len(ns) |->
        IF HasUuid(ns[i].props, node_uuid)
        THEN [ns[i] EXCEPT !.props = Merge(@, properties)]
        ELSE ns[i]]

\* MATCH ()-[r]->() WHERE r.uuid=$rid SET r += $props
update_relationship_properties(rs, rel_uuid, properties) ==
    [i \in 1..Len(rs) |->
        IF HasUuid(rs[i].props, rel_uuid)
        THEN [rs[i] EXCEPT !.props = Merge(@, properties)]
        ELSE rs[i]]

-----------------------------------------------------------------------------
(* Inputs of the direct adapter calls *)

Person == <<"P", "e", "r", "s", "o", "n">>
Friend == <<"F", "R", "I", "E", "N", "D">>

\* the third entry of NewRelationshipDialog.direction_box (a Cyrillic word in the source)
BIDIR == "bi"

Labels == {Person}
RelTypes == {Friend}
Directions == {"->", "<-", BIDIR}

\* a uuid value a caller can copy from the store: that of the first node
KnownUuids(ns) == IF ns # <<>> /\ Truthy(ns[1].props, "uuid") THEN {ns[1].props["uuid"]} ELSE {}

\* property maps given to the node operations and to the relationship operations
InputProps(ns) ==
    {"name" :> "Charlie", "uuid" :> ""} \cup {"uuid" :> u : u \in KnownUuids(ns)}

RelProps ==
    {"since" :> "2025",
     "uuid" :> ""}

NoSuchId == "nx"

\* ids a caller can hold: those a read reports, and one that names nothing
NodeIdInputs(ns) == {QueryNodes(ns)[i].id : i \in 1..Len(ns)} \cup {NoSuchId}
RelIdInputs(ns, rs) == {QueryRels(ns, rs)[i].id : i \in 1..Len(rs)} \cup {NoSuchId}

-----------------------------------------------------------------------------
(* Direct adapter calls, one after the other (as the integration tests do) *)

NoRead == [none |-> TRUE]
HaveRead == "nodes" \in DOMAIN prevRead

Shift == prevRead' = IF last.op = "get_graph" THEN last.ret ELSE NoRead

Blank == [nodes |-> <<>>, edges |-> <<>>]

NoFile == [none |-> TRUE]

\* no window: the controller's state stays as it is here
NoWindow ==
    /\ tasks = EmptyBag
    /\ filter_items = <<>>
    /\ filter_index = 0
    /\ view = Blank
    /\ boxes = <<>>
    /\ ui_calls = {}
    /\ exported = NoFile
    /\ client = 1

Init ==
    /\ dbNodes = <<>>
    /\ dbRels = <<>>
    /\ last = [op |-> "init"]
    /\ prevRead = NoRead
    /\ NoWindow

CallGetGraph ==
    /\ last' = [op |-> "get_graph", ret |-> get_graph(dbNodes, dbRels)]
    /\ Shift
    /\ UNCHANGED <<dbNodes, dbRels, uiVars>>

CallAddNode ==
    \E label \in Labels, properties \in InputProps(dbNodes) :
        /\ Len(dbNodes) < MaxNodes
        /\ dbNodes' = add_node(dbNodes, label, properties)
        /\ last' = [op |-> "add_node", label |-> label, properties |-> properties,
                    kept |-> CallerMap(properties, uuid4_node(Len(dbNodes))),
                    ret |-> <<CreatedNode(dbNodes, label, properties)>>]
        /\ Shift
        /\ UNCHANGED <<dbRels, uiVars>>

CallAddRelationship ==
    \E from_uuid \in NodeIdInputs(dbNodes), to_uuid \in NodeIdInputs(dbNodes),
       r_type \in RelTypes, direction \in Directions, properties \in RelProps :
        LET made == CreatedRels(dbNodes, dbRels, from_uuid, to_uuid, r_type, direction, properties)
        IN /\ Len(dbRels) + Len(made) <= MaxRels
           /\ dbRels' = add_relationship(dbNodes, dbRels, from_uuid, to_uuid, r_type, direction, properties)
           /\ last' = [op |-> "add_relationship", from_uuid |-> from_uuid, to_uuid |-> to_uuid,
                       r_type |-> r_type, direction |-> direction, properties |-> properties,
                       kept |-> CallerMap(properties, uuid4_rel(Len(dbRels))),
                       ret |-> made]
           /\ Shift
           /\ UNCHANGED <<dbNodes, uiVars>>

CallUpdateNode ==
    \E node_uuid \in NodeIdInputs(dbNodes), properties \in InputProps(dbNodes) :
        /\ dbNodes' = update_node_properties(dbNodes, node_uuid, properties)
        /\ last' = [op |-> "update_node_properties", id |-> node_uuid, properties |-> properties]
        /\ Shift
        /\ UNCHANGED <<dbRels, uiVars>>

CallUpdateRel ==
    \E rel_uuid \in RelIdInputs(dbNodes, dbRels), properties \in RelProps :
        /\ dbRels' = update_relationship_properties(dbRels, rel_uuid, properties)
        /\ last' = [op |-> "update_relationship_properties", id |-> rel_uuid, properties |-> properties]
        /\ Shift
        /\ UNCHANGED <<dbNodes, uiVars>>

Next ==
    \/ CallGetGraph
    \/ CallAddNode
    \/ CallAddRelationship
    \/ CallUpdateNode
    \/ CallUpdateRel

Spec == Init /\ [][Next]_vars

-----------------------------------------------------------------------------
(* Properties of the direct adapter calls *)

Now == get_graph(dbNodes, dbRels)

Ids(recs) == [i \in 1..Len(recs) |-> recs[i].id]
IdSet(recs) == {recs[i].id : i \in 1..Len(recs)}

\* every key/value of p, other than the keys in `except`, is in q
Contains(q, p, except) ==
    \A k \in (DOMAIN p) \ except : k \in DOMAIN q /\ q[k] = p[k]

AfterReadThen(op) == last.op = op /\ HaveRead

\* the earlier nodes are read back as they were, and there is one more
OneMoreNode ==
    /\ Len(Now.nodes) = Len(prevRead.nodes) + 1
    /\ \A i \in 1..Len(prevRead.nodes) : Now.nodes[i] = prevRead.nodes[i]

\* C1 as stated: after get_graph; add_node(label, properties), a read returns
\* exactly one more node, and that node's properties contain every key/value
\* of the given properties.
C1_AddNodeKeepsAllGiven ==
    AfterReadThen("add_node") =>
        /\ OneMoreNode
        /\ Contains(Now.nodes[Len(Now.nodes)].properties, last.properties, {})

\* C1 amended: after get_graph; add_node(label, properties), a read returns
\* exactly one more node; that node's properties contain every key/value of
\* the given properties except the key "uuid", whose value is the generated
\* uuid, which no node of the earlier read has.
C1_AddNodeOneMore ==
    AfterReadThen("add_node") =>
        LET new == Now.nodes[Len(Now.nodes)]
        IN /\ OneMoreNode
           /\ Contains(new.properties, last.properties, {"uuid"})
           /\ new.properties["uuid"] = new.id
           /\ new.id \notin IdSet(prevRead.nodes)

C1_Witness ==
    /\ AfterReadThen("add_node")
    /\ Len(prevRead.nodes) >= 1
    /\ "name" \in DOMAIN last.properties
    /\ Now.nodes[Len(Now.nodes)].properties["name"] = "Charlie"

\* C2: for two node ids A and B that a read reports, add_relationship(A, B,
\* type, "->", props) followed by a read yields exactly one new edge, of that
\* type, with from = A and to = B; with direction "<-" the new edge has
\* from = B and to = A.
C2_AddRelationshipOneEdge ==
    ( /\ AfterReadThen("add_relationship")
      /\ last.from_uuid \in IdSet(prevRead.nodes)
      /\ last.to_uuid \in IdSet(prevRead.nodes)
      /\ last.direction \in {"->", "<-"} ) =>
        /\ Len(Now.rels) = Len(prevRead.rels) + 1
        /\ LET new == Now.rels[Len(Now.rels)]
           IN /\ new.type = last.r_type
              /\ last.direction = "->" => (new.from = last.from_uuid /\ new.to = last.to_uuid)
              /\ last.direction = "<-" => (new.from = last.to_uuid /\ new.to = last.from_uuid)

\* the entities of the read `before` that carry uuid = id
Located(before, id) == {i \in 1..Len(before) : HasUuid(before[i].properties, id)}

\* old merged with p gives new: no key lost, keys outside p keep their value,
\* keys of p have p's value
Merged(old, p, new) ==
    /\ DOMAIN old \subseteq DOMAIN new
    /\ \A k \in (DOMAIN old) \ (DOMAIN p) : new[k] = old[k]
    /\ \A k \in DOMAIN p : k \in DOMAIN new /\ new[k] = p[k]

\* C3: update_node_properties and update_relationship_properties merge: after
\* update(id, P) every entity located by uuid = id keeps every key it had,
\* keys not in P keep their value, and every key of P reads back with P's value.
C3_UpdateMerges ==
    /\ AfterReadThen("update_node_properties") =>
          \A i \in Located(prevRead.nodes, last.id) :
              Merged(prevRead.nodes[i].properties, last.properties, Now.nodes[i].properties)
    /\ AfterReadThen("update_relationship_properties") =>
          \A i \in Located(prevRead.rels, last.id) :
              Merged(prevRead.rels[i].properties, last.properties, Now.rels[i].properties)

\* a located node had a key that the update leaves alone and a key it overwrites
C3_Witness ==
    /\ AfterReadThen("update_node_properties")
    /\ \E i \in Located(prevRead.nodes, last.id) :
          /\ "name" \in DOMAIN prevRead.nodes[i].properties
          /\ DOMAIN last.properties = {"uuid"}
          /\ prevRead.nodes[i].properties["uuid"] # last.properties["uuid"]
          /\ Now.nodes[i].properties["name"] = "Charlie"

\* C6: every node of a read has a non-empty id, and two consecutive reads
\* with no call in between report the same node ids.
C6_IdsNonEmptyAndStable ==
    /\ last.op = "get_graph" => \A i \in 1..Len(last.ret.nodes) : last.ret.nodes[i].id # ""
    /\ AfterReadThen("get_graph") => Ids(last.ret.nodes) = Ids(prevRead.nodes)

\* two consecutive reads of a store holding a node whose uuid is empty
C6_Witness ==
    /\ AfterReadThen("get_graph")
    /\ \E i \in 1..Len(last.ret.nodes) :
          /\ "uuid" \in DOMAIN last.ret.nodes[i].properties
          /\ last.ret.nodes[i].properties["uuid"] = ""

\* C7: an id that a read reports is a handle for writes: update(id, P) with
\* the id of a returned node (edge) gives P's values to the node (edge) that
\* was reported under that id, and add_relationship between two reported
\* node ids creates an edge.
C7_ReportedIdsAreHandles ==
    /\ AfterReadThen("update_node_properties") =>
          \A i \in 1..Len(prevRead.nodes) :
              prevRead.nodes[i].id = last.id =>
                  Contains(Now.nodes[i].properties, last.properties, {})
    /\ AfterReadThen("update_relationship_properties") =>
          \A i \in 1..Len(prevRead.rels) :
              prevRead.rels[i].id = last.id =>
                  Contains(Now.rels[i].properties, last.properties, {})
    /\ ( /\ AfterReadThen("add_relationship")
         /\ last.from_uuid \in IdSet(prevRead.nodes)
         /\ last.to_uuid \in IdSet(prevRead.nodes) ) =>
          Len(Now.rels) > Len(prevRead.rels)


-----------------------------------------------------------------------------
(* MainWindow._apply_graph_to_view: filter the read, build the Network *)

\* props.get(k) == v, for a non-empty v
GetIs(props, k, v) == k \in DOMAIN props /\ props[k] = v

\* self.filter_box.currentText()
CurrentText(items, index) == IF index = 0 THEN "" ELSE items[index]

\* if selected_type and selected_type != ALL
Filtering(selected_type) == selected_type # "" /\ selected_type # ALL

\* variant: ... if r["from"] in node_ids or r["to"] in node_ids
FilterRels_Either(rels, node_ids) ==
    SelectSeq(rels, LAMBDA r : r.from \in node_ids \/ r.to \in node_ids)

\* rels = [r for r in rels if r["from"] in node_ids and r["to"] in node_ids]
FilterRels(rels, node_ids) ==
    SelectSeq(rels, LAMBDA r : r.from \in node_ids /\ r.to \in node_ids)

FilterGraph(nodes, rels, selected_type) ==
    IF Filtering(selected_type)
    THEN LET ns == SelectSeq(nodes, LAMBDA n : GetIs(n.properties, TypeKey, selected_type))
         IN [nodes |-> ns, rels |-> FilterRels(rels, IdSet(ns))]
    ELSE [nodes |-> nodes, rels |-> rels]

\* variant: r.get("direction") in the first test too
Arrows_NoDefault(r) ==
    IF "direction" \notin DOMAIN r THEN "to,from"
    ELSE IF r.direction = "->" THEN "to"
    ELSE IF r.direction = "<-" THEN "from"
    ELSE "to,from"

\* "to" if r.get("direction", "->") == "->" else "from" if r.get("direction") == "<-"
\* else "to,from"
Arrows(r) ==
    IF (IF "direction" \in DOMAIN r THEN r.direction ELSE "->") = "->" THEN "to"
    ELSE IF r.direction = "<-" THEN "from"
    ELSE "to,from"

\* what net.add_node and net.add_edge are given, in order
BuildNetwork(g) ==
    [nodes |-> [i \in 1..Len(g.nodes) |->
                   [id |-> g.nodes[i].id,
                    label |-> g.nodes[i].label,
                    title |-> g.nodes[i].properties]],
     edges |-> [i \in 1..Len(g.rels) |->
                   [from |-> g.rels[i].from,
                    to |-> g.rels[i].to,
                    label |-> g.rels[i].type,
                    title |-> g.rels[i].properties,
                    arrows |-> Arrows(g.rels[i]),
                    id |-> g.rels[i].id]]]

\* variant: the Network is built from the lists as they were read
_apply_graph_to_view_Unfiltered(nodes, rels) ==
    view' = BuildNetwork([nodes |-> nodes, rels |-> rels])

_apply_graph_to_view(nodes, rels) ==
    view' = BuildNetwork(FilterGraph(nodes, rels, CurrentText(filter_items, filter_index)))

-----------------------------------------------------------------------------
(* Filter selector *)

\* code-point order of the type values that occur
TypeOrder == <<"Company", "User", ALL>>

\* sorted(set(types))
Sorted(S) == SelectSeq(TypeOrder, LAMBDA v : v \in S)

\* MATCH (n) WHERE n.tip IS NOT NULL RETURN DISTINCT n.tip; [rec["t"] ... if rec["t"]]
NodeTypes(ns) == {ns[i].props[TypeKey] : i \in {j \in 1..Len(ns) : Truthy(ns[j].props, TypeKey)}}

\* ["Vse"] + sorted(set(types))
FilterEntries(types) == <<ALL>> \o Sorted(types)

-----------------------------------------------------------------------------
(* Worker pool.  The pool runs the submitted Workers in any order, and a    *)
(* Worker's signal reaches the UI thread at any time after its call ended.  *)

NoResult == [none |-> TRUE]

Mutations == {"add_node", "add_rel", "update_node", "update_rel"}

\* a Worker object: its task_name, the arguments bound in fn, where run() stands
\* (st), what fn returned, the signals run() has emitted, in order, and
\* whether it is the object that the progress properties follow
Worker(task_name, args) ==
    [name |-> task_name, args |-> args, st |-> "queued", result |-> NoResult,
     signals |-> <<>>, followed |-> FALSE]

\* self.pool.start(worker)
Start(ts, worker) == ts (+) SetToBag({worker})
Drop(ts, worker) == ts (-) SetToBag({worker})

\* variant: finished.emit() as the last statement of the try block, not in finally
Emitted_NoFinally(signal) == IF signal = "result" THEN <<signal, "finished">> ELSE <<signal>>

\* Worker.run: result.emit or error.emit, then finished.emit in the finally block
Emitted(signal) == <<signal, "finished">>

Become(ts, worker, st, result) ==
    Start(Drop(ts, worker),
          [worker EXCEPT !.st = st, !.result = result, !.signals = Emitted(st)])

\* places a Worker holds or will claim: a create/update claims two when it succeeds
Places(t) == IF t.name \in Mutations /\ t.st # "error" THEN 2 ELSE 1

RECURSIVE SumPlaces(_, _)
SumPlaces(S, ts) ==
    IF S = {} THEN 0
    ELSE LET t == CHOOSE x \in S : TRUE
         IN CopiesIn(t, ts) * Places(t) + SumPlaces(S \ {t}, ts)

Reserved(ts) == SumPlaces(BagToSet(ts), ts)

RECURSIVE SumCopies(_, _)
SumCopies(S, ts) ==
    IF S = {} THEN 0
    ELSE LET t == CHOOSE x \in S : TRUE
         IN CopiesIn(t, ts) + SumCopies(S \ {t}, ts)

Queued(task_name) ==
    SumCopies({t \in BagToSet(tasks) : t.name = task_name /\ t.st = "queued"}, tasks)

\* number of records the query of an update returns (the code discards them)
Records(recs, u) == Cardinality({i \in 1..Len(recs) : HasUuid(recs[i].props, u)})

\* store calls that raised and whose message box is not closed yet
Errors == Len(boxes) + SumCopies({t \in BagToSet(tasks) : t.st = "error"}, tasks)

\* Worker.run: self.fn(), then the result signal, or the error signal when it
\* raises.  A store call that raises has written nothing.
RunTask(t, raises) ==
    /\ BagIn(t, tasks)
    /\ t.st = "queued"
    /\ raises => Errors < MaxErrors
    /\ LET a == t.args
       IN IF raises
          THEN /\ tasks' = Become(tasks, t, "error", NoResult)
               /\ UNCHANGED dbVars
          ELSE CASE t.name = "get_graph" ->
                      /\ tasks' = Become(tasks, t, "result", get_graph(dbNodes, dbRels))
                      /\ UNCHANGED dbVars
                 [] t.name = "get_types" ->
                      /\ tasks' = Become(tasks, t, "result", [types |-> NodeTypes(dbNodes)])
                      /\ UNCHANGED dbVars
                 [] t.name = "add_node" ->
                      /\ dbNodes' = add_node(dbNodes, a.label, a.properties)
                      /\ tasks' = Become(tasks, t, "result",
                                     [list |-> <<CreatedNode(dbNodes, a.label, a.properties)>>])
                      /\ UNCHANGED dbRels
                 [] t.name = "add_rel" ->
                      /\ dbRels' = add_relationship(dbNodes, dbRels, a.from, a.to, a.type,
                                                    a.direction, a.properties)
                      /\ tasks' = Become(tasks, t, "result",
                                     [list |-> CreatedRels(dbNodes, dbRels, a.from, a.to, a.type,
                                                           a.direction, a.properties)])
                      /\ UNCHANGED dbNodes
                 [] t.name = "update_node" ->
                      /\ dbNodes' = update_node_properties(dbNodes, a.id, a.properties)
                      /\ tasks' = Become(tasks, t, "result", [records |-> Records(dbNodes, a.id)])
                      /\ UNCHANGED dbRels
                 [] t.name = "update_rel" ->
                      /\ dbRels' = update_relationship_properties(dbRels, a.id, a.properties)
                      /\ tasks' = Become(tasks, t, "result", [records |-> Records(dbRels, a.id)])
                      /\ UNCHANGED dbNodes
    /\ UNCHANGED <<apiVars, filter_items, filter_index, view, boxes, ui_calls, exported, client>>

Run == \E t \in BagToSet(tasks), raises \in BOOLEAN : RunTask(t, raises)

-----------------------------------------------------------------------------
(* MainWindow: signal handlers *)

\* variant: _load_graph_async() only
Refresh_GraphOnly(ts) == Start(ts, Worker("get_graph", NoResult))

\* _populate_filters_async(); _load_graph_async()
Refresh(ts) == Start(Start(ts, Worker("get_types", NoResult)), Worker("get_graph", NoResult))

\* _apply_filters: clear() and addItems() with the signals blocked; the first
\* entry becomes the current one
_apply_filters(types) ==
    /\ filter_items' = FilterEntries(types)
    /\ filter_index' = 1

\* variant: a get_graph result that holds fewer nodes than the view shows is
\* taken for an outdated one and dropped
_on_task_result_NewestOnly(t) ==
    /\ BagIn(t, tasks)
    /\ t.st = "result"
    /\ CASE t.name = "get_graph" ->
              /\ IF Len(t.result.nodes) < Len(view.nodes)
                 THEN UNCHANGED view
                 ELSE _apply_graph_to_view(t.result.nodes, t.result.rels)
              /\ tasks' = Drop(tasks, t)
              /\ UNCHANGED <<filter_items, filter_index>>
         [] t.name = "get_types" ->
              /\ _apply_filters(t.result.types)
              /\ tasks' = Drop(tasks, t)
              /\ UNCHANGED view
         [] OTHER ->
              /\ tasks' = IF t.name \in Mutations
                          THEN Refresh(Drop(tasks, t))
                          ELSE Drop(tasks, t)
              /\ UNCHANGED <<filter_items, filter_index, view>>
    /\ UNCHANGED <<dbVars, apiVars, boxes, ui_calls, exported, client>>

\* _on_task_result, for the payload of Worker t
_on_task_result(t) ==
    /\ BagIn(t, tasks)
    /\ t.st = "result"
    /\ CASE t.name = "get_graph" ->
              /\ _apply_graph_to_view(t.result.nodes, t.result.rels)
              /\ tasks' = Drop(tasks, t)
              /\ UNCHANGED <<filter_items, filter_index>>
         [] t.name = "get_types" ->
              /\ _apply_filters(t.result.types)
              /\ tasks' = Drop(tasks, t)
              /\ UNCHANGED view
         [] OTHER ->
              /\ tasks' = IF t.name \in Mutations
                          THEN Refresh(Drop(tasks, t))
                          ELSE Drop(tasks, t)
              /\ UNCHANGED <<filter_items, filter_index, view>>
    /\ UNCHANGED <<dbVars, apiVars, boxes, ui_calls, exported, client>>

\* variant: the handler also reloads the graph
_on_task_error_Reloading(t) ==
    /\ BagIn(t, tasks)
    /\ t.st = "error"
    /\ boxes' = Append(boxes, t.name)
    /\ tasks' = Start(Drop(tasks, t), Worker("get_graph", NoResult))
    /\ UNCHANGED <<dbVars, apiVars, filter_items, filter_index, view, ui_calls, exported, client>>

\* _on_task_error, for the payload of Worker t: QMessageBox.critical, modal
_on_task_error(t) ==
    /\ BagIn(t, tasks)
    /\ t.st = "error"
    /\ boxes' = Append(boxes, t.name)
    /\ tasks' = Drop(tasks, t)
    /\ UNCHANGED <<dbVars, apiVars, filter_items, filter_index, view, ui_calls, exported, client>>

DeliverResult == \E t \in BagToSet(tasks) : _on_task_result(t)
DeliverError == \E t \in BagToSet(tasks) : _on_task_error(t)

\* the user closes the innermost message box
DismissBox ==
    /\ boxes # <<>>
    /\ boxes' = SubSeq(boxes, 1, Len(boxes) - 1)
    /\ UNCHANGED <<dbVars, apiVars, tasks, filter_items, filter_index, view, ui_calls, exported, client>>

-----------------------------------------------------------------------------
(* MainWindow and Bridge: what the user does.  A message box is application *)
(* modal: while one is open the user reaches nothing else.                   *)

\* property maps typed into NewNodeDialog, and rows typed over in NodeDialog
DialogProps == {TypeKey :> "User", TypeKey :> ALL}
\* rows typed over in RelationshipDialog; NewRelationshipDialog's editor is left empty
RelDialogProps == {"since" :> "2025"}

\* QComboBox.currentData() of an empty box
NoData == "None"

\* n.get("properties", {}).get("uuid") or n.get("id")
ComboData(n) == IF Truthy(n.properties, "uuid") THEN n.properties["uuid"] ELSE n.id

Idle(places) == boxes = <<>> /\ Reserved(tasks) + places <= MaxTasks

\* filter_box.currentTextChanged -> _reload_graph -> _load_graph_async
SelectFilter ==
    \E i \in 1..Len(filter_items) :
        /\ Idle(1)
        /\ i # filter_index
        /\ filter_index' = i
        /\ tasks' = Start(tasks, Worker("get_graph", NoResult))
        /\ UNCHANGED <<dbVars, apiVars, filter_items, view, boxes, ui_calls, exported, client>>

\* _create_node
CreateNode ==
    \E label \in Labels, properties \in DialogProps, accepted \in BOOLEAN :
        /\ Idle(2)
        /\ Len(dbNodes) + Queued("add_node") < MaxNodes
        /\ tasks' = IF accepted
                    THEN Start(tasks, Worker("add_node", [label |-> label, properties |-> properties]))
                    ELSE tasks
        /\ UNCHANGED <<dbVars, apiVars, filter_items, filter_index, view, boxes, ui_calls, exported, client>>

\* _create_relationship: reads the graph on the UI thread, then the dialog
CreateRelationship ==
    LET nodes == get_graph(dbNodes, dbRels).nodes
        data == IF nodes = <<>> THEN {NoData} ELSE {ComboData(nodes[i]) : i \in 1..Len(nodes)}
    IN \E from \in data, to \in data, type \in RelTypes, direction \in Directions,
          properties \in {NoProps}, accepted \in BOOLEAN :
           /\ Idle(2)
           /\ Len(dbRels) + Queued("add_rel") < MaxRels
           /\ tasks' = IF accepted
                       THEN Start(tasks, Worker("add_rel",
                                [from |-> from, to |-> to, type |-> type,
                                 direction |-> direction, properties |-> properties]))
                       ELSE tasks
           /\ ui_calls' = ui_calls \cup {"get_graph"}
           /\ UNCHANGED <<dbVars, apiVars, filter_items, filter_index, view, boxes, exported, client>>

\* variant: the last match, as a scan that keeps overwriting its result finds it
FirstWithId_Last(recs, element_id) ==
    LET hits == {i \in 1..Len(recs) : recs[i].id = element_id}
    IN IF hits = {} THEN 0 ELSE CHOOSE i \in hits : \A j \in hits : i >= j

\* next((x for x in recs if str(x.get("id")) == str(element_id)), None)
FirstWithId(recs, element_id) ==
    LET hits == {i \in 1..Len(recs) : recs[i].id = element_id}
    IN IF hits = {} THEN 0 ELSE CHOOSE i \in hits : \A j \in hits : i <= j

\* Bridge.onNodeClicked(element_type, element_id): reads the graph on the UI
\* thread, opens the editor on the first match; the editor shows the entity's
\* properties and returns them with the rows the user typed over
onNodeClicked(element_type, element_id, edit, accepted) ==
    LET g == get_graph(dbNodes, dbRels)
        recs == IF element_type = "node" THEN g.nodes ELSE g.rels
        k == FirstWithId(recs, element_id)
    IN /\ Idle(2)
       /\ tasks' = IF element_type \in {"node", "edge"} /\ k # 0 /\ accepted
                   THEN Start(tasks,
                          Worker(IF element_type = "node" THEN "update_node" ELSE "update_rel",
                                 [id |-> recs[k].id,
                                  properties |-> Merge(recs[k].properties, edit)]))
                   ELSE tasks
       /\ ui_calls' = IF element_type \in {"node", "edge"}
                      THEN ui_calls \cup {"get_graph"}
                      ELSE ui_calls
       /\ UNCHANGED <<dbVars, apiVars, filter_items, filter_index, view, boxes, exported, client>>

\* the page reports a click on a node or an edge it displays
ClickNode ==
    \E i \in 1..Len(view.nodes), edit \in DialogProps, accepted \in BOOLEAN :
        onNodeClicked("node", view.nodes[i].id, edit, accepted)

ClickEdge ==
    \E i \in 1..Len(view.edges), edit \in RelDialogProps, accepted \in BOOLEAN :
        onNodeClicked("edge", view.edges[i].id, edit, accepted)

-----------------------------------------------------------------------------
(* The application over a database that already holds a node made elsewhere *)

\* a node without a uuid property, as any other client of the database makes them
ForeignNode == [id |-> 0, labels |-> <<Person>>, props |-> (TypeKey :> "User")]

\* MainWindow.__init__: _populate_filters() runs the type query on the UI
\* thread and fills the empty selector, which emits currentTextChanged and so
\* submits a first get_graph; _load_graph_async() submits the second
Constructed(ns) ==
    /\ filter_items = FilterEntries(NodeTypes(ns))
    /\ filter_index = 1
    /\ tasks = Start(Start(EmptyBag, Worker("get_graph", NoResult)), Worker("get_graph", NoResult))
    /\ view = Blank
    /\ boxes = <<>>
    /\ ui_calls = {"get_types"}
    /\ exported = NoFile
    /\ client = 1

InitUI ==
    /\ dbNodes = <<ForeignNode>>
    /\ dbRels = <<>>
    /\ last = [op |-> "init"]
    /\ prevRead = NoRead
    /\ Constructed(dbNodes)

NextUI ==
    \/ Run
    \/ DeliverResult
    \/ DeliverError
    \/ DismissBox
    \/ SelectFilter
    \/ CreateNode
    \/ CreateRelationship
    \/ ClickNode
    \/ ClickEdge

SpecUI == InitUI /\ [][NextUI]_vars


-----------------------------------------------------------------------------
(* The application over the database of tests/setup_test_db.py, read only *)

Company == <<"C", "o", "m", "p", "a", "n", "y">>
WORKS_AT == <<"W", "O", "R", "K", "S", "_", "A", "T">>
KNOWS == <<"K", "N", "O", "W", "S">>

\* NODES, as setup_database creates them
SeedNodes ==
    <<[id |-> 0, labels |-> <<Person>>,
       props |-> ("uuid" :> "1" @@ "name" :> "Alice" @@ TypeKey :> "User")],
      [id |-> 1, labels |-> <<Person>>,
       props |-> ("uuid" :> "2" @@ "name" :> "Bob" @@ TypeKey :> "User")],
      [id |-> 2, labels |-> <<Company>>,
       props |-> ("uuid" :> "3" @@ "name" :> "Neo4jInc" @@ TypeKey :> "Company")]>>

\* RELATIONSHIPS, as setup_database creates them
SeedRels ==
    <<[id |-> 0, start |-> 0, end |-> 2, type |-> WORKS_AT, props |-> ("uuid" :> "r1")],
      [id |-> 1, start |-> 1, end |-> 2, type |-> WORKS_AT, props |-> ("uuid" :> "r2")],
      [id |-> 2, start |-> 0, end |-> 1, type |-> KNOWS, props |-> ("uuid" :> "r3")]>>

InitSeed ==
    /\ dbNodes = SeedNodes
    /\ dbRels = SeedRels
    /\ last = [op |-> "init"]
    /\ prevRead = NoRead
    /\ Constructed(dbNodes)

NextSeed ==
    \/ Run
    \/ DeliverResult
    \/ DeliverError
    \/ DismissBox
    \/ SelectFilter

SpecSeed == InitSeed /\ [][NextSeed]_vars

-----------------------------------------------------------------------------
(* Properties of the controller *)

Selected == CurrentText(filter_items, filter_index)

Shows(t) == _on_task_result(t) /\ t.name = "get_graph"

ViewNodes(v) == {v.nodes[i] : i \in 1..Len(v.nodes)}
ViewEdges(v) == {v.edges[i] : i \in 1..Len(v.edges)}

\* the rendering of the nodes of g whose type tag is T and of the edges of g
\* with both ends among them
OfType(g, T) ==
    LET keep == {i \in 1..Len(g.nodes) : GetIs(g.nodes[i].properties, TypeKey, T)}
        ids == {g.nodes[i].id : i \in keep}
        both == {i \in 1..Len(g.rels) : g.rels[i].from \in ids /\ g.rels[i].to \in ids}
        all == BuildNetwork(g)
    IN [nodes |-> {all.nodes[i] : i \in keep}, edges |-> {all.edges[i] : i \in both}]

\* C4: when a read is rendered while the selector stands on a type value T
\* of the list (any entry after the first), the rendered graph has exactly
\* the nodes whose type tag equals T and exactly the edges with both ends
\* among them.
C4_FilterShowsExactlyType ==
    [][\A t \in BagToSet(tasks) :
          (Shows(t) /\ filter_index >= 2) =>
              /\ ViewNodes(view') = OfType(t.result, Selected).nodes
              /\ ViewEdges(view') = OfType(t.result, Selected).edges]_vars

\* C5: over the seeded store every read has 3 nodes and 3 edges; rendered
\* under "Company" it shows 1 node and no edge, under "User" 2 nodes and 1
\* edge, the KNOWS edge.
C5_SeedScenario ==
    [][\A t \in BagToSet(tasks) :
          Shows(t) =>
              /\ Len(t.result.nodes) = 3 /\ Len(t.result.rels) = 3
              /\ Selected = "Company" => (Len(view'.nodes) = 1 /\ Len(view'.edges) = 0)
              /\ Selected = "User" =>
                    /\ Len(view'.nodes) = 2
                    /\ Len(view'.edges) = 1
                    /\ view'.edges[1].label = KNOWS]_vars

\* the view shows the two User nodes and the KNOWS edge between them
C5_Witness ==
    /\ dbNodes = SeedNodes
    /\ Selected = "User"
    /\ Len(view.nodes) = 2
    /\ Len(view.edges) = 1
    /\ view.edges[1].label = KNOWS
    /\ view.edges[1].from = "1" /\ view.edges[1].to = "2"

UpdateNames == {"update_node", "update_rel"}

StoreOf(t) == IF t.name = "update_node" THEN dbNodes ELSE dbRels

\* C8: an update whose id matches no uuid ends without an error and leaves
\* the store as it was, and the controller handles its result as it handles
\* that of any update: it submits the refresh and shows no message.
C8_UpdateOfMissingIsSilent ==
    [][\A t \in BagToSet(tasks) :
          /\ ( /\ t.name \in UpdateNames
               /\ RunTask(t, FALSE)
               /\ Records(StoreOf(t), t.args.id) = 0 ) =>
                 /\ UNCHANGED dbVars
                 /\ \E u \in BagToSet(tasks') : u.name = t.name /\ u.args = t.args /\ u.st = "result"
          /\ ( /\ t.name \in UpdateNames
               /\ _on_task_result(t)
               /\ t.result.records = 0 ) =>
                 /\ CopiesIn(Worker("get_types", NoResult), tasks')
                      = CopiesIn(Worker("get_types", NoResult), tasks) + 1
                 /\ CopiesIn(Worker("get_graph", NoResult), tasks')
                      = CopiesIn(Worker("get_graph", NoResult), tasks) + 1
                 /\ boxes' = boxes]_vars

\* an update that matched nothing has ended with the result signal
C8_Witness ==
    \E t \in BagToSet(tasks) :
        /\ t.name = "update_node"
        /\ t.st = "result"
        /\ t.result.records = 0
        /\ dbNodes = <<ForeignNode>>

\* C9: when the result of an add_node, add_rel, update_node or update_rel
\* task is handled, the controller submits one get_types and one get_graph
\* task and nothing else, and changes neither the view nor the selector.
C9_MutationThenRefresh ==
    [][\A t \in BagToSet(tasks) :
          (_on_task_result(t) /\ t.name \in Mutations) =>
              /\ CopiesIn(Worker("get_types", NoResult), tasks')
                   = CopiesIn(Worker("get_types", NoResult), tasks) + 1
              /\ CopiesIn(Worker("get_graph", NoResult), tasks')
                   = CopiesIn(Worker("get_graph", NoResult), tasks) + 1
              /\ BagCardinality(tasks') = BagCardinality(tasks) + 1
              /\ UNCHANGED <<view, filter_items, filter_index>>]_vars

\* the refresh submitted after a node was created
C9_Witness ==
    /\ Len(dbNodes) = 2
    /\ BagIn(Worker("get_types", NoResult), tasks)
    /\ BagIn(Worker("get_graph", NoResult), tasks)

\* C10: when the error of a task is handled, exactly one message box naming
\* the task opens, no task is submitted (neither the operation again nor a
\* refresh), and selector and view stay as they are.
C10_ErrorReportedOnce ==
    [][\A t \in BagToSet(tasks) :
          _on_task_error(t) =>
              /\ boxes' = Append(boxes, t.name)
              /\ tasks' = Drop(tasks, t)
              /\ UNCHANGED <<view, filter_items, filter_index>>]_vars

\* a create that raised: its message box is open and nothing else is in the pool
C10_Witness ==
    /\ boxes = <<"add_node">>
    /\ tasks = EmptyBag
    /\ view # Blank

\* C11: every store call (get_graph, add_node, add_relationship, update_*,
\* the type query) is executed by a Worker of the pool and never by the UI
\* thread: at start-up, on a click, on relationship creation and on export
\* the UI thread has executed no store operation itself.
C11_StoreCallsOnlyOnPool == ui_calls = {}

-----------------------------------------------------------------------------
(* Progress of one Worker.  The pool is a bag, so equal Workers are not told *)
(* apart.  To say what becomes of one submitted Worker object, Follow marks  *)
(* any queued one; at most one is marked at a time.                          *)

Followed(ts) == {t \in BagToSet(ts) : t.followed}

Follow ==
    \E t \in BagToSet(tasks) :
        /\ t.st = "queued"
        /\ Followed(tasks) = {}
        /\ tasks' = Start(Drop(tasks, t), [t EXCEPT !.followed = TRUE])
        /\ UNCHANGED <<dbVars, apiVars, filter_items, filter_index, view, boxes, ui_calls, exported, client>>

RunFollowed == \E t \in Followed(tasks), raises \in BOOLEAN : RunTask(t, raises)

DeliverFollowed == \E t \in Followed(tasks) : _on_task_result(t) \/ _on_task_error(t)

NextLive ==
    \/ Run
    \/ DeliverResult
    \/ DeliverError
    \/ DismissBox
    \/ SelectFilter
    \/ CreateNode
    \/ Follow

\* QThreadPool starts every Worker in its queue once a thread is free, and a
\* store call returns or raises; the event loop of the UI thread (also the one
\* a message box runs) delivers every signal queued to it.
SpecLive == InitUI /\ [][NextLive]_vars /\ WF_vars(RunFollowed) /\ WF_vars(DeliverFollowed)

Ran(t, raises) ==
    [t EXCEPT !.st = IF raises THEN "error" ELSE "result",
              !.signals = <<IF raises THEN "error" ELSE "result", "finished">>]

\* C12: a submitted Worker is never cancelled: it leaves the queue only by
\* running, and its run emits exactly one of result and error (the one that
\* tells how the call ended), under the Worker's task name, and then finished,
\* once; and every queued Worker eventually runs.
C12_EveryTaskRunsOnce ==
    /\ [][\A t \in BagToSet(tasks) :
            /\ \A raises \in BOOLEAN :
                  RunTask(t, raises) =>
                      \E u \in BagToSet(tasks') :
                          /\ [u EXCEPT !.result = t.result] = Ran(t, raises)
                          /\ CopiesIn(u, tasks') = CopiesIn(u, tasks) + 1
            /\ (t.st = "queued" /\ CopiesIn(t, tasks') < CopiesIn(t, tasks)) =>
                  \/ \E raises \in BOOLEAN : RunTask(t, raises)
                  \/ Follow]_vars
    /\ (\E t \in Followed(tasks) : t.st = "queued")
          ~> (\E t \in Followed(tasks) : t.st \in {"result", "error"} /\ Len(t.signals) = 2)

\* the followed add_node Worker has raised: error and finished are emitted
C12_Witness ==
    \E t \in Followed(tasks) :
        /\ t.name = "add_node"
        /\ t.st = "error"
        /\ t.signals = <<"error", "finished">>

-----------------------------------------------------------------------------
(* Clicks over a database in which two nodes carry the same uuid, as an     *)
(* edit of the "uuid" row or another client of the database leaves them     *)

DupNodes ==
    <<[id |-> 0, labels |-> <<Person>>, props |-> ("uuid" :> "d" @@ "name" :> "Alice")],
      [id |-> 1, labels |-> <<Person>>, props |-> ("uuid" :> "d" @@ "name" :> "Bob")]>>

DupRels ==
    <<[id |-> 0, start |-> 0, end |-> 1, type |-> KNOWS, props |-> ("uuid" :> "e")]>>

\* what the page can report: bridge.onNodeClicked(kind, id) is open to any script of the page
ClickKinds == {"node", "edge", "canvas"}
ClickIds == NodeIdInputs(dbNodes) \cup RelIdInputs(dbNodes, dbRels)
\* the row typed into the editor that opens
ClickEdits == {TypeKey :> "User"}

Click ==
    \E element_type \in ClickKinds, element_id \in ClickIds,
       edit \in ClickEdits, accepted \in BOOLEAN :
        onNodeClicked(element_type, element_id, edit, accepted)

InitClick ==
    /\ dbNodes = DupNodes
    /\ dbRels = DupRels
    /\ last = [op |-> "init"]
    /\ prevRead = NoRead
    /\ Constructed(dbNodes)

NextClick ==
    \/ Run
    \/ DeliverResult
    \/ DeliverError
    \/ DismissBox
    \/ Click

SpecClick == InitClick /\ [][NextClick]_vars

\* the entities of the reported kind in a read of the store as it is now
OfKind(element_type) ==
    IF element_type = "node" THEN Now.nodes
    ELSE IF element_type = "edge" THEN Now.rels
    ELSE <<>>

\* position of the first of them whose id is the reported id, 0 when there is none
Hit(element_type, element_id) ==
    LET recs == OfKind(element_type)
        hits == {i \in 1..Len(recs) : recs[i].id = element_id}
    IN IF hits = {} THEN 0 ELSE CHOOSE i \in hits : \A j \in 1..(i - 1) : j \notin hits

\* C13: on a click (kind, id) the controller reads the graph again and takes
\* the first entity of that kind whose id is the reported id.  When there is
\* one and the editor, opened on that entity's properties, is accepted,
\* exactly one update of that kind for that id is dispatched, with the
\* editor's properties; when there is none, or the kind is neither "node" nor
\* "edge", or the editor is cancelled, nothing is dispatched.  The click
\* itself never changes the store.
C13_ClickResolution ==
    [][\A element_type \in ClickKinds, element_id \in ClickIds,
          edit \in ClickEdits, accepted \in BOOLEAN :
          onNodeClicked(element_type, element_id, edit, accepted) =>
              LET k == Hit(element_type, element_id)
              IN /\ UNCHANGED dbVars
                 /\ IF k # 0 /\ accepted
                    THEN \E w \in BagToSet(tasks') :
                            /\ tasks' = Start(tasks, w)
                            /\ w.st = "queued"
                            /\ w.name = (IF element_type = "node" THEN "update_node" ELSE "update_rel")
                            /\ w.args.id = element_id
                            /\ w.args.properties = Merge(OfKind(element_type)[k].properties, edit)
                    ELSE tasks' = tasks]_vars

\* a click on the id that two nodes share: the update holds the first one's name
C13_Witness ==
    \E t \in BagToSet(tasks) :
        /\ t.name = "update_node"
        /\ t.st = "queued"
        /\ t.args.id = "d"
        /\ t.args.properties["name"] = "Alice"
        /\ Now.nodes[2].id = "d"

-----------------------------------------------------------------------------
(* Properties of the direct adapter calls, continued *)

\* the relationships of the store before the add_relationship call in `last`
RelsBefore == SubSeq(dbRels, 1, Len(dbRels) - Len(last.ret))

\* the store is as the same call with the given endpoints and "->" leaves it
StoredAsForward(from_uuid, to_uuid) ==
    dbRels = add_relationship(dbNodes, RelsBefore, from_uuid, to_uuid,
                              last.r_type, "->", last.properties)

\* the direction given changes the store only by the swap that "<-" makes
DirectionOnlySwaps ==
    last.op = "add_relationship" =>
        IF last.direction = "<-"
        THEN StoredAsForward(last.to_uuid, last.from_uuid)
        ELSE StoredAsForward(last.from_uuid, last.to_uuid)

\* C14: add_relationship(A, B, type, bidirectional, props), for two node ids
\* that a read reports, persists exactly one directed edge, from A to B, and
\* leaves the store as direction "->" would; only "<-" alters the stored
\* endpoints.
C14_BidirStoresOneForwardEdge ==
    /\ DirectionOnlySwaps
    /\ ( /\ AfterReadThen("add_relationship")
         /\ last.direction = BIDIR
         /\ last.from_uuid \in IdSet(prevRead.nodes)
         /\ last.to_uuid \in IdSet(prevRead.nodes) ) =>
          /\ Len(Now.rels) = Len(prevRead.rels) + 1
          /\ Now.rels[Len(Now.rels)].from = last.from_uuid
          /\ Now.rels[Len(Now.rels)].to = last.to_uuid

-----------------------------------------------------------------------------
(* MainWindow._export_graph *)

\* what net.add_node and net.add_edge are given in _export_graph, in order:
\* the edges get no arrows argument there
ExportNetwork(g) ==
    [nodes |-> [i \in 1..Len(g.nodes) |->
                   [id |-> g.nodes[i].id,
                    label |-> g.nodes[i].label,
                    title |-> g.nodes[i].properties]],
     edges |-> [i \in 1..Len(g.rels) |->
                   [from |-> g.rels[i].from,
                    to |-> g.rels[i].to,
                    label |-> g.rels[i].type,
                    title |-> g.rels[i].properties,
                    id |-> g.rels[i].id]]]

\* QFileDialog.getSaveFileName: "" when the dialog is cancelled
Paths == {"", "out.html"}

\* variant: the export applies the selected filter as the live view does
_export_graph_Filtered(path, raises) ==
    /\ Idle(0)
    /\ raises => Errors < MaxErrors
    /\ IF path = ""
       THEN UNCHANGED <<ui_calls, exported, boxes>>
       ELSE /\ ui_calls' = ui_calls \cup {"get_graph"}
            /\ IF raises
               THEN boxes' = Append(boxes, "export") /\ UNCHANGED exported
               ELSE /\ exported' = ExportNetwork(FilterGraph(get_graph(dbNodes, dbRels).nodes,
                                                             get_graph(dbNodes, dbRels).rels,
                                                             CurrentText(filter_items, filter_index)))
                    /\ UNCHANGED boxes
    /\ UNCHANGED <<dbVars, apiVars, tasks, filter_items, filter_index, view, client>>

\* _export_graph: reads the graph on the UI thread and writes it to the path;
\* an exception of the read or of the write opens a message box
_export_graph(path, raises) ==
    /\ Idle(0)
    /\ raises => Errors < MaxErrors
    /\ IF path = ""
       THEN UNCHANGED <<ui_calls, exported, boxes>>
       ELSE /\ ui_calls' = ui_calls \cup {"get_graph"}
            /\ IF raises
               THEN boxes' = Append(boxes, "export") /\ UNCHANGED exported
               ELSE /\ exported' = ExportNetwork(get_graph(dbNodes, dbRels))
                    /\ UNCHANGED boxes
    /\ UNCHANGED <<dbVars, apiVars, tasks, filter_items, filter_index, view, client>>

Export == \E path \in Paths, raises \in BOOLEAN : _export_graph(path, raises)

NextExport ==
    \/ Run
    \/ DeliverResult
    \/ DeliverError
    \/ DismissBox
    \/ SelectFilter
    \/ CreateNode
    \/ Export

SpecExport == InitUI /\ [][NextExport]_vars

\* C15: an export that is given a path and whose read succeeds writes every
\* node and every edge of a read of the store as it is at that moment,
\* whatever the selector shows; no export changes the live view, the
\* selector, the store or the pool.
C15_ExportIsUnfiltered ==
    [][\A path \in Paths, raises \in BOOLEAN :
          _export_graph(path, raises) =>
              /\ UNCHANGED <<view, filter_items, filter_index, dbNodes, dbRels, tasks>>
              /\ (path # "" /\ ~raises) =>
                    /\ Ids(exported'.nodes) = Ids(Now.nodes)
                    /\ Ids(exported'.edges) = Ids(Now.rels)
                    /\ \A i \in 1..Len(Now.rels) :
                          /\ exported'.edges[i].from = Now.rels[i].from
                          /\ exported'.edges[i].to = Now.rels[i].to
                          /\ exported'.edges[i].label = Now.rels[i].type
                    /\ \A i \in 1..Len(Now.nodes) :
                          exported'.nodes[i].title = Now.nodes[i].properties]_vars

\* under the filter "User" the view shows one node, the exported document both
C15_Witness ==
    /\ Selected = "User"
    /\ filter_index = 2
    /\ Len(view.nodes) = 1
    /\ exported # NoFile
    /\ Len(exported.nodes) = 2
    /\ Len(dbNodes) = 2

-----------------------------------------------------------------------------
(* One adapter call, statement by statement: `last` is the call, with where *)
(* it stands (pc), the sessions it has opened and closed and the queries it *)
(* has issued.                                                               *)

Reads == {"get_graph"}
Writes == {"add_node", "add_relationship", "update_node_properties",
           "update_relationship_properties"}

\* session.run calls in the body of the operation
Queries(op) == IF op \in Reads THEN 2 ELSE 1

\* the calls a caller can make on the store as it is
AdapterCalls ==
    {[op |-> "get_graph"]}
    \cup {[op |-> "add_node", label |-> l, properties |-> p] :
             l \in Labels, p \in InputProps(dbNodes)}
    \cup {[op |-> "add_relationship", from_uuid |-> a, to_uuid |-> b, r_type |-> t,
           direction |-> d, properties |-> p] :
             a \in NodeIdInputs(dbNodes), b \in NodeIdInputs(dbNodes), t \in RelTypes,
             d \in {"->", "<-"}, p \in {NoProps}}
    \cup {[op |-> "update_node_properties", id |-> u, properties |-> p] :
             u \in NodeIdInputs(dbNodes), p \in InputProps(dbNodes)}
    \cup {[op |-> "update_relationship_properties", id |-> u, properties |-> p] :
             u \in RelIdInputs(dbNodes, dbRels), p \in RelProps}

NoCall == [op |-> "init", pc |-> "returned", opened |-> 0, closed |-> 0, queries |-> 0]

\* the call is made; self.driver.session() gives a session, or raises
SessionEnter ==
    \E c \in AdapterCalls, raises \in BOOLEAN :
        /\ last.pc \in {"returned", "raised"}
        /\ c.op = "add_node" => Len(dbNodes) < MaxNodes
        /\ last' = c @@ [pc |-> IF raises THEN "raised" ELSE "body",
                         opened |-> IF raises THEN 0 ELSE 1,
                         closed |-> 0, queries |-> 0]
        /\ UNCHANGED <<dbVars, prevRead, uiVars>>

\* what the body holds after its next session.run, and the store after it
QueryEffect(c) ==
    CASE c.op = "get_graph" /\ c.queries = 0 ->
            [call |-> c @@ [nodes |-> QueryNodes(dbNodes)], ns |-> dbNodes, rs |-> dbRels]
      [] c.op = "get_graph" /\ c.queries = 1 ->
            [call |-> c @@ [ret |-> <<c.nodes, QueryRels(dbNodes, dbRels)>>],
             ns |-> dbNodes, rs |-> dbRels]
      [] c.op = "add_node" ->
            [call |-> c @@ [ret |-> [list |-> <<CreatedNode(dbNodes, c.label, c.properties)>>]],
             ns |-> add_node(dbNodes, c.label, c.properties), rs |-> dbRels]
      [] c.op = "add_relationship" ->
            [call |-> c @@ [ret |-> [list |-> CreatedRels(dbNodes, dbRels, c.from_uuid, c.to_uuid,
                                                        c.r_type, c.direction, c.properties)]],
             ns |-> dbNodes,
             rs |-> add_relationship(dbNodes, dbRels, c.from_uuid, c.to_uuid,
                                     c.r_type, c.direction, c.properties)]
      [] c.op = "update_node_properties" ->
            [call |-> c @@ [ret |-> [none |-> TRUE]],
             ns |-> update_node_properties(dbNodes, c.id, c.properties), rs |-> dbRels]
      [] c.op = "update_relationship_properties" ->
            [call |-> c @@ [ret |-> [none |-> TRUE]],
             ns |-> dbNodes, rs |-> update_relationship_properties(dbRels, c.id, c.properties)]

\* session.run(query, ...): a query that raises has written nothing
SessionRun ==
    \E raises \in BOOLEAN :
        /\ last.pc = "body"
        /\ last.queries < Queries(last.op)
        /\ LET e == QueryEffect(last)
               made == Len(e.rs) - Len(dbRels)
           IN /\ made <= MaxRels - Len(dbRels)
              /\ IF raises
                 THEN /\ last' = [last EXCEPT !.pc = "raising", !.queries = @ + 1]
                      /\ UNCHANGED dbVars
                 ELSE /\ last' = [e.call EXCEPT !.queries = @ + 1]
                      /\ dbNodes' = e.ns
                      /\ dbRels' = e.rs
        /\ UNCHANGED <<prevRead, uiVars>>

\* variant: session = self.driver.session(); ...; session.close() at the end
\* of the body, which an exception skips
WithExit_CloseAtEnd(c) ==
    [c EXCEPT !.closed = IF c.pc = "raising" THEN @ ELSE @ + 1,
              !.pc = IF c.pc = "raising" THEN "raised" ELSE "returned"]

\* the with statement's __exit__: closes the session, then the call returns
\* or the exception goes on to the caller
WithExit(c) ==
    [c EXCEPT !.closed = @ + 1,
              !.pc = IF c.pc = "raising" THEN "raised" ELSE "returned"]

SessionExit ==
    /\ \/ last.pc = "raising"
       \/ last.pc = "body" /\ last.queries = Queries(last.op)
    /\ last' = WithExit(last)
    /\ UNCHANGED <<dbVars, prevRead, uiVars>>

InitSession ==
    /\ dbNodes = <<>>
    /\ dbRels = <<>>
    /\ last = NoCall
    /\ prevRead = NoRead
    /\ NoWindow

NextSession ==
    \/ SessionEnter
    \/ SessionRun
    \/ SessionExit

SpecSession == InitSession /\ [][NextSession]_vars

Ended == last.op # "init" /\ last.pc \in {"returned", "raised"}

\* C16: when an adapter call has ended, by return or by exception, it has
\* opened at most one session and closed every session it opened, and a call
\* that returned opened one; a write that returned issued exactly one query
\* (one that raised at most one); add_node and add_relationship return a
\* list; get_graph over an empty store returns two empty lists.
C16_OneSessionOneQuery ==
    /\ last.opened <= 1 /\ last.closed <= last.opened
    /\ Ended => last.closed = last.opened
    /\ (Ended /\ last.pc = "returned") => last.opened = 1
    /\ (Ended /\ last.op \in Writes) =>
          /\ last.queries <= 1
          /\ last.pc = "returned" => last.queries = 1
    /\ (Ended /\ last.pc = "returned" /\ last.op \in {"add_node", "add_relationship"}) =>
          "list" \in DOMAIN last.ret
    /\ (Ended /\ last.pc = "returned" /\ last.op = "get_graph"
          /\ dbNodes = <<>> /\ dbRels = <<>>) =>
          last.ret = <<<<>>, <<>>>>

\* an update whose query raised: the session it opened is closed
C16_Witness ==
    /\ last.op = "update_node_properties"
    /\ last.pc = "raised"
    /\ last.queries = 1
    /\ last.opened = 1
    /\ last.closed = 1
    /\ Len(dbNodes) = 2

-----------------------------------------------------------------------------
(* Order of delivery *)

\* the selector stands on its first entry, so the view shows every node of
\* the read it displays, and the result of t holds fewer nodes: nothing
\* deletes a node, so t's read was made before the read on display
Stale(t) ==
    /\ t.name = "get_graph"
    /\ t.st = "result"
    /\ filter_index = 1
    /\ Len(t.result.nodes) < Len(view.nodes)

\* C17: the results of overlapping get_graph submissions are delivered in
\* any order, and nothing in the controller (no request counter, no
\* cancellation) keeps an older one from the view: when the result of a read
\* older than the read on display is delivered, the view is replaced by the
\* graph of that older read.
C17_StaleResultOverwrites ==
    [][\A t \in BagToSet(tasks) :
          (_on_task_result(t) /\ Stale(t)) =>
              /\ view' = BuildNetwork(t.result)
              /\ Len(view'.nodes) < Len(view.nodes)]_vars

\* the view shows the store as it is, and the result of a read made before
\* the last node was created is still to be delivered
C17_Witness ==
    /\ Len(view.nodes) = Len(dbNodes)
    /\ \E t \in BagToSet(tasks) : Stale(t)

-----------------------------------------------------------------------------
(* get_graph query by query.  The pool runs several Workers at a time, so a *)
(* write of one Worker can fall between the two queries of another's        *)
(* get_graph; here a get_graph Worker stands at "reading" between them.     *)

\* variant: the second query keeps only the edges between the nodes that the
\* first query returned, as a read of one snapshot would
SecondQuery_OfSnapshot(nodes, ns, rs) ==
    SelectSeq(QueryRels(ns, rs),
              LAMBDA r : r.from \in IdSet(nodes) /\ r.to \in IdSet(nodes))

\* rels_result = session.run("MATCH (a)-[r]->(b) RETURN r, a, b"), after `nodes` is built
SecondQuery(nodes, ns, rs) == QueryRels(ns, rs)

\* nodes_result = session.run("MATCH (n) RETURN n") and the loop over it
RunNodesQuery ==
    \E t \in BagToSet(tasks), raises \in BOOLEAN :
        /\ t.name = "get_graph"
        /\ t.st = "queued"
        /\ raises => Errors < MaxErrors
        /\ tasks' = IF raises
                    THEN Become(tasks, t, "error", NoResult)
                    ELSE Start(Drop(tasks, t),
                               [t EXCEPT !.st = "reading",
                                         !.result = [nodes |-> QueryNodes(dbNodes)]])
        /\ UNCHANGED <<dbVars, apiVars, filter_items, filter_index, view, boxes, ui_calls, exported, client>>

\* the second query and the loop over it; then run() emits
RunRelsQueryOf(t, raises) ==
    /\ BagIn(t, tasks)
    /\ t.name = "get_graph"
    /\ t.st = "reading"
    /\ raises => Errors < MaxErrors
    /\ tasks' = IF raises
                THEN Become(tasks, t, "error", NoResult)
                ELSE Become(tasks, t, "result",
                            [nodes |-> t.result.nodes,
                             rels |-> SecondQuery(t.result.nodes, dbNodes, dbRels)])
    /\ UNCHANGED <<dbVars, apiVars, filter_items, filter_index, view, boxes, ui_calls, exported, client>>

RunRelsQuery == \E t \in BagToSet(tasks), raises \in BOOLEAN : RunRelsQueryOf(t, raises)

\* the Workers of one query each
RunOther ==
    \E t \in BagToSet(tasks), raises \in BOOLEAN :
        /\ t.name # "get_graph"
        /\ RunTask(t, raises)

NextRace ==
    \/ RunNodesQuery
    \/ RunRelsQuery
    \/ RunOther
    \/ DeliverResult
    \/ DeliverError
    \/ DismissBox
    \/ CreateNode
    \/ CreateRelationship

SpecRace == InitUI /\ [][NextRace]_vars

\* the edges of g with an end that is no node of g
Dangling(g) ==
    {i \in 1..Len(g.rels) :
        g.rels[i].from \notin IdSet(g.nodes) \/ g.rels[i].to \notin IdSet(g.nodes)}

\* C18: get_graph returns the nodes that its first query found and every
\* edge that its second query found, with no check of the one against the
\* other; so with a write between the two queries it returns an edge whose
\* from or to is the id of no returned node.
C18_ReadIsNotASnapshot ==
    [][\A t \in BagToSet(tasks) :
          RunRelsQueryOf(t, FALSE) =>
              \E u \in BagToSet(tasks') :
                  /\ CopiesIn(u, tasks') = CopiesIn(u, tasks) + 1
                  /\ u.st = "result"
                  /\ u.result.nodes = t.result.nodes
                  /\ Ids(u.result.rels) = Ids(Now.rels)]_vars

\* a get_graph result with an edge between nodes that its node list lacks
C18_Witness ==
    \E t \in BagToSet(tasks) :
        /\ t.name = "get_graph"
        /\ t.st = "result"
        /\ Dangling(t.result) # {}
        /\ Len(t.result.nodes) < Len(dbNodes)

-----------------------------------------------------------------------------
(* The read-filter-render cycle *)

\* the graphs a read can return where SpecLive runs
Graphs ==
    {get_graph(ns, <<>>) :
        ns \in {<<ForeignNode>>}
               \cup {add_node(<<ForeignNode>>, l, p) : l \in Labels, p \in DialogProps}}

Rendering(g) == BuildNetwork(FilterGraph(g.nodes, g.rels, Selected))

-----------------------------------------------------------------------------
(* Identity of the entities of a read *)

JustRead == last.op = "get_graph"

\* the id the rule gives when "present" means that the property is in the map
IdIfPresent(props, handle) == IF "uuid" \in DOMAIN props THEN props["uuid"] ELSE Str(handle)

\* the id the rule gives when "present" means in the map and not empty
IdIfNonEmpty(props, handle) ==
    IF "uuid" \in DOMAIN props /\ props["uuid"] # "" THEN props["uuid"] ELSE Str(handle)

\* C20 as stated: in the result of get_graph every node and every edge has
\* its uuid property as id whenever the entity has that property, and the
\* stringified handle otherwise.
C20_IdIsUuidWhenPresent ==
    JustRead =>
        /\ \A i \in 1..Len(dbNodes) :
              last.ret.nodes[i].id = IdIfPresent(dbNodes[i].props, dbNodes[i].id)
        /\ \A i \in 1..Len(dbRels) :
              last.ret.rels[i].id = IdIfPresent(dbRels[i].props, dbRels[i].id)

\* C20: in the result of get_graph every node and every edge has its uuid
\* property as id when it has that property and the value is not empty, and
\* the stringified handle otherwise; an edge's from and to are what this rule
\* gives for its start node and its end node, so each of them is the id of a
\* node of the returned node list.
C20_IdentityRule ==
    JustRead =>
        /\ Len(last.ret.nodes) = Len(dbNodes)
        /\ Len(last.ret.rels) = Len(dbRels)
        /\ \A i \in 1..Len(dbNodes) :
              last.ret.nodes[i].id = IdIfNonEmpty(dbNodes[i].props, dbNodes[i].id)
        /\ \A i \in 1..Len(dbRels) :
              LET r == dbRels[i]
                  a == dbNodes[r.start + 1]
                  b == dbNodes[r.end + 1]
              IN /\ last.ret.rels[i].id = IdIfNonEmpty(r.props, r.id)
                 /\ last.ret.rels[i].from = IdIfNonEmpty(a.props, a.id)
                 /\ last.ret.rels[i].to = IdIfNonEmpty(b.props, b.id)
                 /\ last.ret.rels[i].from \in IdSet(last.ret.nodes)
                 /\ last.ret.rels[i].to \in IdSet(last.ret.nodes)

\* a read that returns an edge with an empty uuid, named by its handle,
\* between nodes named by their uuids
C20_Witness ==
    /\ JustRead
    /\ \E i \in 1..Len(dbRels) :
          /\ "uuid" \in DOMAIN dbRels[i].props
          /\ dbRels[i].props["uuid"] = ""
          /\ last.ret.rels[i].id = Str(dbRels[i].id)
          /\ last.ret.rels[i].from = dbNodes[dbRels[i].start + 1].props["uuid"]
          /\ last.ret.rels[i].from # Str(dbNodes[dbRels[i].start + 1].id)

-----------------------------------------------------------------------------
(* Labels and types as a caller can write them *)

RawLabels ==
    {<<>>,
     <<"-", " ">>,
     <<"P", "e", "r", " ", "s", "o", "n">>,
     <<"_", "1">>,
     <<"N", ")", ";", "D", "R", "O", "P">>}

RawTypes ==
    {<<>>,
     <<";">>,
     <<"K", "N", "O", "W", "S", "!">>,
     <<"_">>}

CallAddNodeRaw ==
    \E label \in RawLabels, properties \in {NoProps} :
        /\ Len(dbNodes) < MaxNodes
        /\ dbNodes' = add_node(dbNodes, label, properties)
        /\ last' = [op |-> "add_node", label |-> label, properties |-> properties,
                    ret |-> <<CreatedNode(dbNodes, label, properties)>>]
        /\ Shift
        /\ UNCHANGED <<dbRels, uiVars>>

CallAddRelationshipRaw ==
    \E from_uuid \in NodeIdInputs(dbNodes), to_uuid \in NodeIdInputs(dbNodes),
       r_type \in RawTypes, direction \in {"->"}, properties \in {NoProps} :
        LET made == CreatedRels(dbNodes, dbRels, from_uuid, to_uuid, r_type, direction, properties)
        IN /\ Len(dbRels) + Len(made) <= MaxRels
           /\ dbRels' = add_relationship(dbNodes, dbRels, from_uuid, to_uuid, r_type, direction, properties)
           /\ last' = [op |-> "add_relationship", from_uuid |-> from_uuid, to_uuid |-> to_uuid,
                       r_type |-> r_type, direction |-> direction, properties |-> properties,
                       ret |-> made]
           /\ Shift
           /\ UNCHANGED <<dbNodes, uiVars>>

NextRaw ==
    \/ CallAddNodeRaw
    \/ CallAddRelationshipRaw
    \/ CallGetGraph

SpecRaw == Init /\ [][NextRaw]_vars

\* what is left of s, or the default when nothing is left
Kept(s, default) == IF SelectSeq(s, IsSafeChar) = <<>> THEN default ELSE SelectSeq(s, IsSafeChar)

\* C21: the label of the node that add_node creates is the given label cut
\* down to its letters, digits and underscores, in their order, and "Node"
\* when the given label is empty or nothing is left of it; the same for the
\* type of the relationships that add_relationship creates, with "REL".  The
\* call is made and creates its entity in each of these cases, and the label
\* or type it uses is never empty and holds no other character.
C21_LabelAndTypeAreSanitized ==
    /\ last.op = "add_node" =>
          /\ Len(last.ret) = 1
          /\ last.ret[1] = dbNodes[Len(dbNodes)]
          /\ last.ret[1].labels = <<Kept(last.label, DefaultLabel)>>
    /\ last.op = "add_relationship" =>
          \A k \in 1..Len(last.ret) : last.ret[k].type = Kept(last.r_type, DefaultType)
    /\ \A i \in 1..Len(dbNodes) :
          \A j \in 1..Len(dbNodes[i].labels) :
              /\ dbNodes[i].labels[j] # <<>>
              /\ \A c \in 1..Len(dbNodes[i].labels[j]) : IsSafeChar(dbNodes[i].labels[j][c])
    /\ \A i \in 1..Len(dbRels) :
          /\ dbRels[i].type # <<>>
          /\ \A c \in 1..Len(dbRels[i].type) : IsSafeChar(dbRels[i].type[c])

\* a relationship of type REL made from the type ";" between a node labelled
\* Node, made from the label "- ", and a node whose label lost its marks
C21_Witness ==
    /\ last.op = "add_relationship"
    /\ last.r_type = <<";">>
    /\ Len(last.ret) = 1
    /\ dbRels[1].type = DefaultType
    /\ \E i, j \in 1..Len(dbNodes) :
          /\ dbNodes[i].labels = <<DefaultLabel>>
          /\ dbNodes[j].labels = <<<<"N", "D", "R", "O", "P">>>>

-----------------------------------------------------------------------------
(* The view builder on the results of any client.  Neo4jClient.get_graph    *)
(* gives every edge the direction "->"; the slot renders whatever the       *)
(* result signal carries, so the edges here come from a stub client.        *)

StubDirections == {"->", "<-", BIDIR, ""}

StubEdges ==
    {[id |-> i, from |-> "1", to |-> "2", type |-> KNOWS, properties |-> NoProps,
      direction |-> d] : i \in {"r1", "r2"}, d \in StubDirections}
    \cup {[id |-> i, from |-> "1", to |-> "2", type |-> KNOWS, properties |-> NoProps] :
             i \in {"r1", "r2"}}

StubRels == {<<>>} \cup {<<e>> : e \in StubEdges} \cup {<<e, f>> : e \in StubEdges, f \in StubEdges}

\* a get_graph Worker has returned and its result signal waits for the UI thread
InitStub ==
    /\ dbNodes = SeedNodes
    /\ dbRels = <<>>
    /\ last = [op |-> "init"]
    /\ prevRead = NoRead
    /\ filter_items = FilterEntries(NodeTypes(dbNodes))
    /\ filter_index = 1
    /\ \E rs \in StubRels :
          tasks = Become(Start(EmptyBag, Worker("get_graph", NoResult)),
                         Worker("get_graph", NoResult), "result",
                         [nodes |-> QueryNodes(dbNodes), rels |-> rs])
    /\ view = Blank
    /\ boxes = <<>>
    /\ ui_calls = {"get_types"}
    /\ exported = NoFile
    /\ client = 1

NextStub == DeliverResult

SpecStub == InitStub /\ [][NextStub]_vars

\* C22: when a get_graph result is rendered, the view has one edge for each
\* edge that passes the filter, in order, with that edge's id; its arrows are
\* "to" when the edge's direction is "->" or the edge has none, "from" when
\* it is "<-", and "to,from" for every other value.
C22_ArrowsFollowDirection ==
    [][\A t \in BagToSet(tasks) :
          Shows(t) =>
              LET shown == FilterGraph(t.result.nodes, t.result.rels, Selected).rels
              IN /\ Len(view'.edges) = Len(shown)
                 /\ \A i \in 1..Len(shown) :
                       /\ view'.edges[i].id = shown[i].id
                       /\ view'.edges[i].arrows =
                             (IF "direction" \notin DOMAIN shown[i] THEN "to"
                              ELSE IF shown[i].direction = "->" THEN "to"
                              ELSE IF shown[i].direction = "<-" THEN "from"
                              ELSE "to,from")]_vars

\* the view shows r1 with an arrow at its source and r2 with arrows at both ends
C22_Witness ==
    /\ tasks = EmptyBag
    /\ Len(view.edges) = 2
    /\ view.edges[1].id = "r1"
    /\ view.edges[1].arrows = "from"
    /\ view.edges[2].id = "r2"
    /\ view.edges[2].arrows = "to,from"

-----------------------------------------------------------------------------
(* The uuid of a created entity *)

\* the uuid values stored on the nodes and relationships
StoredUuids(ns, rs) ==
    {ns[i].props["uuid"] : i \in {j \in 1..Len(ns) : "uuid" \in DOMAIN ns[j].props}}
    \cup {rs[i].props["uuid"] : i \in {j \in 1..Len(rs) : "uuid" \in DOMAIN rs[j].props}}

\* the uuid values generated for the entities created so far
IssuedUuids(ns, rs) ==
    {uuid4_node(ns[i].id) : i \in 1..Len(ns)} \cup {uuid4_rel(rs[i].id) : i \in 1..Len(rs)}

FreshIn(u, ns, rs) ==
    /\ u # ""
    /\ u \notin StoredUuids(ns, rs)
    /\ u \notin IssuedUuids(ns, rs)

\* C23: the node that an add_node call creates, and every relationship that
\* an add_relationship call creates, is stored with a uuid that is not empty,
\* is not the "uuid" the caller supplied, is on no entity of the store as it
\* was before the call and was generated for none of them; the other
\* properties are the caller's; and the caller's map is after the call what
\* it was before.
C23_CreatedEntityGetsFreshUuid ==
    [][/\ last'.op = "add_node" /\ Len(dbNodes') > Len(dbNodes) =>
            LET n == dbNodes'[Len(dbNodes')]
            IN /\ Len(dbNodes') = Len(dbNodes) + 1
               /\ "uuid" \in DOMAIN n.props
               /\ FreshIn(n.props["uuid"], dbNodes, dbRels)
               /\ "uuid" \in DOMAIN last'.properties => n.props["uuid"] # last'.properties["uuid"]
               /\ \A k \in DOMAIN last'.properties \ {"uuid"} : n.props[k] = last'.properties[k]
               /\ last'.kept = last'.properties
       /\ last'.op = "add_relationship" /\ Len(dbRels') > Len(dbRels) =>
            /\ \A i \in (Len(dbRels) + 1)..Len(dbRels') :
                  LET r == dbRels'[i]
                  IN /\ "uuid" \in DOMAIN r.props
                     /\ FreshIn(r.props["uuid"], dbNodes, dbRels)
                     /\ "uuid" \in DOMAIN last'.properties =>
                           r.props["uuid"] # last'.properties["uuid"]
                     /\ \A k \in DOMAIN last'.properties \ {"uuid"} :
                           r.props[k] = last'.properties[k]
            /\ last'.kept = last'.properties]_vars

\* a second node created with the first node's uuid in the given map: it is
\* stored with another uuid, and the given map still holds the first node's
C23_Witness ==
    /\ last.op = "add_node"
    /\ Len(dbNodes) = 2
    /\ "uuid" \in DOMAIN last.properties
    /\ last.properties["uuid"] = dbNodes[1].props["uuid"]
    /\ last.properties["uuid"] # ""
    /\ last.kept = last.properties
    /\ dbNodes[2].props["uuid"] \notin {"", dbNodes[1].props["uuid"]}

-----------------------------------------------------------------------------
(* Uniqueness of ids *)

\* C24: the client's own operations start from the empty store and keep the
\* ids of a read apart: in the result of get_graph on the store as it is, no
\* two nodes have the same id and no two edges have the same id.
C24_IdsStayUnique ==
    /\ \A i, j \in 1..Len(Now.nodes) : Now.nodes[i].id = Now.nodes[j].id => i = j
    /\ \A i, j \in 1..Len(Now.rels) : Now.rels[i].id = Now.rels[j].id => i = j

-----------------------------------------------------------------------------
(* The view and the selector at rest, over a database that holds one node   *)
(* of another type, while every store call succeeds                         *)

CompanyNode == [id |-> 0, labels |-> <<Company>>, props |-> (TypeKey :> "Company")]

InitCalm ==
    /\ dbNodes = <<CompanyNode>>
    /\ dbRels = <<>>
    /\ last = [op |-> "init"]
    /\ prevRead = NoRead
    /\ Constructed(dbNodes)

\* a store call that returns
RunOk == \E t \in BagToSet(tasks) : RunTask(t, FALSE)

NextCalm ==
    \/ RunOk
    \/ DeliverResult
    \/ SelectFilter
    \/ CreateNode
    \/ ClickNode

SpecCalm == InitCalm /\ [][NextCalm]_vars

\* the node lists the store has held: the first node is never written, the
\* second is created once and then only its type row is typed over
PastStores ==
    {<<dbNodes[1]>>}
    \cup (IF Len(dbNodes) < 2 THEN {}
          ELSE {<<dbNodes[1], [dbNodes[2] EXCEPT !.props = Merge(@, e)]>> : e \in DialogProps})

PastReads == {get_graph(ns, <<>>) : ns \in PastStores}

AtRest == tasks = EmptyBag /\ boxes = <<>>

\* C25: whenever no task is pending, the view is the rendering of some
\* get_graph result filtered with the text that the selector shows now.
C25_ViewMatchesSelectorAtRest ==
    AtRest =>
        \E g \in PastReads : view = BuildNetwork(FilterGraph(g.nodes, g.rels, Selected))

-----------------------------------------------------------------------------
(* Change of the connection settings.  Clients are numbered in the order of *)
(* their construction; _open_settings closes the one in use before it makes *)
(* the next, so the clients before the one in use are the closed ones.      *)

MaxClients == 2
MaxPool == 5

\* what a client reads: the first one the database the window started on,
\* the later ones the database of tests/setup_test_db.py
NodesOf(c) == IF c = 1 THEN dbNodes ELSE SeedNodes
RelsOf(c) == IF c = 1 THEN dbRels ELSE SeedRels
Database(c) == get_graph(NodesOf(c), RelsOf(c))

\* self.submit_task(self.client.get_graph, 'get_graph'): the bound method
\* holds the client that self.client names when the task is submitted
LoadGraphOn(c) == Worker("get_graph", [client |-> c])

InitSwitch ==
    /\ dbNodes = <<ForeignNode>>
    /\ dbRels = <<>>
    /\ last = [op |-> "init"]
    /\ prevRead = NoRead
    /\ filter_items = FilterEntries(NodeTypes(dbNodes))
    /\ filter_index = 1
    /\ tasks = Start(Start(EmptyBag, LoadGraphOn(1)), LoadGraphOn(1))
    /\ view = Blank
    /\ boxes = <<>>
    /\ ui_calls = {"get_types"}
    /\ exported = NoFile
    /\ client = 1

\* _open_settings: on Accepted the client in use is closed and replaced;
\* _populate_filters() queries the new one on the UI thread and refills the
\* selector, whose clear() and addItems() each emit currentTextChanged and so
\* submit a get_graph; _load_graph_async() submits a third; the information
\* box stays open until the user closes it
OpenSettings ==
    \E accepted \in BOOLEAN :
        /\ boxes = <<>>
        /\ client < MaxClients
        /\ Reserved(tasks) + 3 <= MaxPool
        /\ IF accepted
           THEN /\ client' = client + 1
                /\ ui_calls' = ui_calls \cup {"get_types"}
                /\ filter_items' = FilterEntries(NodeTypes(NodesOf(client + 1)))
                /\ filter_index' = 1
                /\ tasks' = Start(Start(Start(tasks, LoadGraphOn(client + 1)),
                                        LoadGraphOn(client + 1)),
                                  LoadGraphOn(client + 1))
                /\ boxes' = Append(boxes, "settings")
           ELSE UNCHANGED <<client, ui_calls, filter_items, filter_index, tasks, boxes>>
        /\ UNCHANGED <<dbVars, apiVars, view, exported>>

\* Worker.run of a get_graph task: the call goes to the client bound in it.
\* What a closed driver does with a new session depends on the driver's
\* version: it raises, or it warns and answers.
RunBoundTask(t, raises) ==
    /\ BagIn(t, tasks)
    /\ t.name = "get_graph"
    /\ t.st = "queued"
    /\ raises => Errors < MaxErrors
    /\ tasks' = IF raises
                THEN Become(tasks, t, "error", NoResult)
                ELSE Become(tasks, t, "result", Database(t.args.client))
    /\ UNCHANGED <<dbVars, apiVars, filter_items, filter_index, view, boxes, ui_calls,
                   exported, client>>

RunBound == \E t \in BagToSet(tasks), raises \in BOOLEAN : RunBoundTask(t, raises)

NextSwitch ==
    \/ OpenSettings
    \/ RunBound
    \/ DeliverResult
    \/ DeliverError
    \/ DismissBox

SpecSwitch == InitSwitch /\ [][NextSwitch]_vars

\* C26: a task never makes its store call on a client that has been closed,
\* and once the view shows the graph of the connection in use, no result
\* that was read through an earlier connection is rendered over it.
C26_NoUseOfClosedClient ==
    /\ [][\A t \in BagToSet(tasks), raises \in BOOLEAN :
            RunBoundTask(t, raises) => t.args.client = client]_vars
    /\ [][\A t \in BagToSet(tasks) :
            (Shows(t) /\ t.args.client < client) =>
                view # BuildNetwork(Database(client))]_vars

====
